---- MODULE Spec2Model ----
(***************************************************************************)
(* The in-memory file cache of lib/inmemfilecache.js: the closure state of *)
(* one Cache instance, its public operations (readFile, readFileSync,      *)
(* setCacheSizeLimit, clear), the callbacks the event loop runs for it     *)
(* (fs.readFile completions, setTimeout deliveries, fs.watch               *)
(* notifications), and the file system it talks to.                        *)
(*                                                                         *)
(* A JavaScript exception aborts the handler where it is thrown: every     *)
(* operator below that can throw returns the state reached at the throw    *)
(* together with the error, and the action keeps that state.               *)
(***************************************************************************)
EXTENDS Integers, Sequences, FiniteSets, Bags, TLC

\* ------------------------------------------------------------------ bounds
MaxLRULen == 4       \* longest g_fileLRUList explored (sequential callers)
MaxLRUShort == 3     \* longest g_fileLRUList explored (concurrent callers)
MaxLRURacing == 2    \* longest g_fileLRUList explored while the disk changes
MaxPending == 2      \* readFile calls not yet called back (concurrent callers)
MaxRacing == 1       \* readFile calls not yet called back while the disk changes

\* 64 * 1024 * 1024, the default of options.cacheSizeLimit
DefaultCacheSizeLimit == 67108864

\* ------------------------------------------------------------- the inputs
Undefined == "undefined"
NoError == "none"

\* A path is the sequence of its segments: "subfolder/test.txt" is
\* <<"subfolder", "test.txt">>.
FileA == <<"test.file">>
FileB == <<"test.file2">>
FileC == <<"subfolder", "test.txt">>
Files == {FileA, FileB, FileC}

\* What each file can hold on disk (byte sequences).
Versions(f) ==
    IF f = FileA THEN {<<1>>, <<2, 2>>}
    ELSE IF f = FileB THEN {<<>>}
    ELSE {<<4, 4>>}

InitialDisk == [f \in Files |-> IF f = FileA THEN <<1>>
                                ELSE IF f = FileB THEN <<>> ELSE <<4, 4>>]

\* The (filename, options) pairs the callers read with.
Requests == {<<FileA, Undefined>>, <<FileA, "utf-8">>,
             <<FileB, "utf-8">>, <<FileC, Undefined>>}

\* The callers explored, one kind per run:
\*   sequential  synchronous reads of every request;
\*   concurrent  synchronous and asynchronous reads of two requests, with
\*               reads outstanding side by side;
\*   changing    reads of one file under both options while others write
\*               to it.
Workloads ==
    {[name |-> "sequential", requests |-> Requests, lru |-> MaxLRULen,
      pending |-> 0, writes |-> FALSE, watching |-> BOOLEAN],
     [name |-> "concurrent", requests |-> {<<FileA, "utf-8">>, <<FileC, Undefined>>},
      lru |-> MaxLRUShort, pending |-> MaxPending, writes |-> FALSE,
      watching |-> BOOLEAN],
     [name |-> "changing", requests |-> {<<FileA, Undefined>>, <<FileA, "utf-8">>},
      lru |-> MaxLRURacing, pending |-> MaxRacing, writes |-> TRUE,
      watching |-> {TRUE}]}

\* options.cacheSizeLimit at construction, and the arguments of
\* setCacheSizeLimit.
\* <<>> is a constructor called without the option.
ConstructorLimits == {<<>>, <<0>>, <<3>>}
LimitArguments == {-1, 3}

\* The names a watch notification can carry; NoName is a null filename.
NoName == "null"
EventNames == {"test.file", "test.file2", "test.txt", NoName}

\* ------------------------------------------------------------------ state
VARIABLES
    g_cacheSize,            \* var g_cacheSize
    g_cacheSizeLimit,       \* var g_cacheSizeLimit
    g_fileLRUList,          \* var g_fileLRUList (an array of ids)
    g_cachedFiles,          \* var g_cachedFiles (id -> content)
    g_trackedFolders,       \* var g_trackedFolders (dirname -> folderInfo)
    g_numTrackedFolders,    \* var g_numTrackedFolders
    g_checkForFileChanges,  \* var g_checkForFileChanges
    watchers,               \* fs: the handles fs.watch returned, with their close() counts
    disk,                   \* fs: the bytes each file holds
    inflight,               \* event loop: fs.readFile requests not yet called back (a bag)
    timers,                 \* event loop: setTimeout(0) deliveries not yet run
    status,                 \* "running", "hung" (a loop that never ends) or "exited"
    last,                   \* the most recent step and what its caller saw
    changed,                \* per file: changed on disk / change notified since
    mru,                    \* the cached ids by true recency of use, oldest first
    workload                \* the callers of this run

vars == <<g_cacheSize, g_cacheSizeLimit, g_fileLRUList, g_cachedFiles,
          g_trackedFolders, g_numTrackedFolders, g_checkForFileChanges,
          watchers, disk, inflight, timers, status, last, changed, mru, workload>>

\* ------------------------------------------------------------ path module
\* path.dirname
Dirname(p) == IF Len(p) <= 1 THEN <<".">> ELSE SubSeq(p, 1, Len(p) - 1)

\* path.normalize, as far as "." segments go
Normalize(p) ==
    LET q == SelectSeq(p, LAMBDA s : s # ".")
    IN IF q = <<>> THEN <<".">> ELSE q

\* path.join(dirname, filename)
Join(d, name) == Normalize(d \o <<name>>)

\* --------------------------------------------------------------- contents
\* What fs.readFile / fs.readFileSync hand back: a string when an encoding
\* is given, a Buffer otherwise.
Data(bytes, options) ==
    [type |-> IF options = Undefined THEN "Buffer" ELSE "string", bytes |-> bytes]

\* data.length
Length(data) == Len(data.bytes)

\* The value undefined where a content is expected (g_cachedFiles[id] of
\* an id that is not a key).
UndefinedContent == [type |-> "undefined", bytes |-> <<>>]

\* !content : undefined and the empty string are falsy, a Buffer never is
Falsy(content) ==
    \/ content = UndefinedContent
    \/ (content.type = "string" /\ content.bytes = <<>>)

\* ------------------------------------------------------------------- ids
\* JSON.stringify({filename: filename, options: options}): a key whose
\* value is undefined is left out of the text.
makeId(filename, options) ==
    IF options = Undefined
    THEN << <<"filename", filename>> >>
    ELSE << <<"filename", filename>>, <<"options", options>> >>

\* JSON.parse(id).filename
getFilenameFromId(id) == id[1][2]

Ids == {makeId(r[1], r[2]) : r \in Requests}

\* ----------------------------------------------------- the closure state
\* The closure variables the helper functions read and write, with the
\* file system's watch handles, as one value: the helpers below take it and
\* return it changed.
State ==
    [size |-> g_cacheSize, limit |-> g_cacheSizeLimit, lru |-> g_fileLRUList,
     files |-> g_cachedFiles, folders |-> g_trackedFolders,
     num |-> g_numTrackedFolders, watchers |-> watchers]

Thrown(S, err) == [S |-> S, err |-> err]
Returned(S) == [S |-> S, err |-> NoError]

\* obj[key] of a function used as a JavaScript object
Lookup(files, id) == IF id \in DOMAIN files THEN files[id] ELSE UndefinedContent

\* delete obj[key]
Delete(f, key) == [k \in DOMAIN f \ {key} |-> f[k]]

\* obj[key] = value
Put(f, key, value) == [k \in DOMAIN f \cup {key} |-> IF k = key THEN value ELSE f[k]]

\* array.splice(index, 1), index counted from 0
Splice(list, index) ==
    SubSeq(list, 1, index) \o SubSeq(list, index + 2, Len(list))

\* array.indexOf(x): the first position of x counted from 0, or -1
IndexOf(list, x) ==
    IF \E i \in 1..Len(list) : list[i] = x
    THEN (CHOOSE i \in 1..Len(list) :
            list[i] = x /\ \A j \in 1..(i - 1) : list[j] # x) - 1
    ELSE -1

\* g_fileLRUList[id] : a property read on the array with the id text as
\* the key. An id is the JSON text of an object, never an array index, so
\* the read finds no such property; -1 stands for the undefined it yields
\* (neither passes the test index >= 0).
ListProperty(list, id) == -1

\* watcher.close()
Close(ws, h) == [ws EXCEPT ![h].closes = @ + 1]

\* fs.watch(dirname, callback): a handle nobody holds yet
NewHandle(ws) == CHOOSE h \in 1..(Cardinality(DOMAIN ws) + 1) : h \notin DOMAIN ws

Watch(ws, dirname) == Put(ws, NewHandle(ws), [dir |-> dirname, closes |-> 0])

\* The handles worth remembering. A handle closed exactly once that no
\* folderInfo refers to can never be reached again, by the cache or by a
\* notification: it is settled and forgotten. Every other handle stays: the
\* open ones, the ones still referred to, the ones closed more than once.
Settled(S, h) ==
    /\ S.watchers[h].closes = 1
    /\ \A d \in DOMAIN S.folders : S.folders[d].watcher # h

Forget(S) ==
    [S EXCEPT !.watchers = [h \in {x \in DOMAIN @ : ~Settled(S, x)} |-> @[h]]]

\* The bookkeeping below without its delete folderInfo.fileIds[id].
untrackFileKeepsId(S, id) ==
    LET dirname == Dirname(getFilenameFromId(id))
    IN IF ~g_checkForFileChanges \/ dirname \notin DOMAIN S.folders THEN S
       ELSE IF id \notin S.folders[dirname].fileIds THEN S
       ELSE IF S.folders[dirname].numFiles - 1 = 0
            THEN [S EXCEPT !.watchers = Close(@, S.folders[dirname].watcher),
                           !.folders = Delete(@, dirname),
                           !.num = @ - 1]
            ELSE [S EXCEPT !.folders[dirname].numFiles = @ - 1]

\* The bookkeeping below without its --g_numTrackedFolders.
untrackFileKeepsCount(S, id) ==
    LET dirname == Dirname(getFilenameFromId(id))
    IN IF ~g_checkForFileChanges \/ dirname \notin DOMAIN S.folders THEN S
       ELSE IF id \notin S.folders[dirname].fileIds THEN S
       ELSE IF S.folders[dirname].numFiles - 1 = 0
            THEN [S EXCEPT !.watchers = Close(@, S.folders[dirname].watcher),
                           !.folders = Delete(@, dirname)]
            ELSE [S EXCEPT !.folders[dirname].fileIds = @ \ {id},
                           !.folders[dirname].numFiles = @ - 1]

\* The directory bookkeeping at the end of removeById's loop body.
untrackFile(S, id) ==
    LET filename == getFilenameFromId(id)
        dirname == Dirname(filename)
    IN IF ~g_checkForFileChanges THEN S
       ELSE IF dirname \notin DOMAIN S.folders THEN S      \* console.error
       ELSE LET folderInfo == S.folders[dirname]
            IN IF id \notin folderInfo.fileIds THEN S      \* console.error
               ELSE IF folderInfo.numFiles - 1 = 0
                    THEN [S EXCEPT !.watchers = Close(@, folderInfo.watcher),
                                   !.folders = Delete(@, dirname),
                                   !.num = @ - 1]
                    ELSE [S EXCEPT !.folders[dirname] =
                            [watcher |-> folderInfo.watcher,
                             fileIds |-> folderInfo.fileIds \ {id},
                             numFiles |-> folderInfo.numFiles - 1]]

\* One turn of removeById's forEach. contents.length of an undefined
\* contents throws a TypeError before anything is changed.
removeOne(S, id) ==
    LET contents == Lookup(S.files, id)
    IN IF contents = UndefinedContent THEN Thrown(S, "TypeError")
       ELSE LET S1 == [S EXCEPT !.size = IF Length(contents) # 0
                                         THEN @ - Length(contents) ELSE @,
                                !.files = Delete(@, id)]
                index == ListProperty(S1.lru, id)
                S2 == IF index >= 0
                      THEN [S1 EXCEPT !.lru = Splice(@, index)] ELSE S1
            IN Returned(untrackFile(S2, id))

\* removeById(idsToRemove): the ids in turn, up to the first throw.
RECURSIVE removeById(_, _)
removeById(S, idsToRemove) ==
    IF idsToRemove = <<>> THEN Returned(S)
    ELSE LET r == removeOne(S, Head(idsToRemove))
         IN IF r.err # NoError THEN r
            ELSE removeById(r.S, Tail(idsToRemove))

\* makeSpaceInCache(spaceNeeded). splice(0, 1) of an empty list is the empty
\* list, removeById of it does nothing, and the loop then never ends.
RECURSIVE evictLoop(_, _)
evictLoop(S, targetSize) ==
    IF ~(S.size > targetSize) THEN Returned(S)
    ELSE IF S.lru = <<>> THEN Thrown(S, "hang")
    ELSE LET r == removeById([S EXCEPT !.lru = Tail(@)], <<Head(S.lru)>>)
         IN IF r.err # NoError THEN r ELSE evictLoop(r.S, targetSize)

Max(a, b) == IF a > b THEN a ELSE b

makeSpaceInCache(S, spaceNeeded) ==
    evictLoop(S, Max(0, S.limit - spaceNeeded))

\* A set as a sequence, in some order.
RECURSIVE SetToSeq(_)
SetToSeq(set) ==
    IF set = {} THEN <<>>
    ELSE LET x == CHOOSE x \in set : TRUE IN <<x>> \o SetToSeq(set \ {x})

\* A removeByFilename that matches on the directory instead of the path.
removeByFilenameOfFolder(S, filename) ==
    removeById(S, SetToSeq({id \in DOMAIN S.files :
        Dirname(getFilenameFromId(id)) = Dirname(filename)}))

\* removeByFilename(filename). The for-in loop collects the ids in key
\* order; each is a key of g_cachedFiles, so no removal throws and the
\* order does not change the outcome.
removeByFilename(S, filename) ==
    removeById(S, SetToSeq({id \in DOMAIN S.files : getFilenameFromId(id) = filename}))

\* removeByFolder(folder). The loop body reads g_delim, which is declared
\* nowhere: the first turn of the loop throws a ReferenceError.
removeByFolder(S, folder) ==
    IF DOMAIN S.files # {} THEN Thrown(S, "ReferenceError")
    ELSE removeById(S, <<>>)

\* A trackFolder that counts every id it is given, listed already or not.
trackFolderCountsAgain(S, id) ==
    IF ~g_checkForFileChanges THEN S
    ELSE LET dirname == Dirname(getFilenameFromId(id))
             S1 == IF dirname \in DOMAIN S.folders THEN S
                   ELSE [S EXCEPT
                           !.watchers = Watch(@, dirname),
                           !.folders = Put(@, dirname,
                               [watcher |-> NewHandle(S.watchers),
                                fileIds |-> {}, numFiles |-> 0]),
                           !.num = @ + 1]
             folderInfo == S1.folders[dirname]
         IN [S1 EXCEPT !.folders[dirname] =
                [watcher |-> folderInfo.watcher,
                 fileIds |-> folderInfo.fileIds \cup {id},
                 numFiles |-> folderInfo.numFiles + 1]]

\* A trackFolder that calls fs.watch for every id it is given, tracked
\* folder or not.
trackFolderWatchesAgain(S, id) ==
    IF ~g_checkForFileChanges THEN S
    ELSE LET dirname == Dirname(getFilenameFromId(id))
             tracked == dirname \in DOMAIN S.folders
             S1 == [S EXCEPT
                      !.watchers = Watch(@, dirname),
                      !.folders = Put(@, dirname,
                          [watcher |-> NewHandle(S.watchers),
                           fileIds |-> IF tracked THEN S.folders[dirname].fileIds ELSE {},
                           numFiles |-> IF tracked THEN S.folders[dirname].numFiles ELSE 0]),
                      !.num = IF tracked THEN @ ELSE @ + 1]
             folderInfo == S1.folders[dirname]
         IN IF id \in folderInfo.fileIds THEN S1
            ELSE [S1 EXCEPT !.folders[dirname] =
                    [watcher |-> folderInfo.watcher,
                     fileIds |-> folderInfo.fileIds \cup {id},
                     numFiles |-> folderInfo.numFiles + 1]]

\* trackFolder(id)
trackFolder(S, id) ==
    IF ~g_checkForFileChanges THEN S
    ELSE LET dirname == Dirname(getFilenameFromId(id))
             S1 == IF dirname \in DOMAIN S.folders THEN S
                   ELSE [S EXCEPT
                           !.watchers = Watch(@, dirname),
                           !.folders = Put(@, dirname,
                               [watcher |-> NewHandle(S.watchers),
                                fileIds |-> {}, numFiles |-> 0]),
                           !.num = @ + 1]
             folderInfo == S1.folders[dirname]
         IN IF id \in folderInfo.fileIds THEN S1
            ELSE [S1 EXCEPT !.folders[dirname] =
                    [watcher |-> folderInfo.watcher,
                     fileIds |-> folderInfo.fileIds \cup {id},
                     numFiles |-> folderInfo.numFiles + 1]]

\* A getContentFromCache that leaves the list as it is on a hit.
getContentFromCacheKeepsOrder(S, id) ==
    [content |-> Lookup(S.files, id), S |-> S]

\* getContentFromCache(id): the content, with the list reordered on a hit.
getContentFromCache(S, id) ==
    LET content == Lookup(S.files, id)
        index == IndexOf(S.lru, id)
    IN [content |-> content,
        S |-> IF content # UndefinedContent /\ index >= 0
              THEN [S EXCEPT !.lru = Append(Splice(@, index), id)]
              ELSE S]

\* cacheContent(id, data). The else branch builds its debug text from
\* filename, which is no variable in scope: a ReferenceError.
cacheContent(S, id, data) ==
    IF Length(data) <= S.limit
    THEN LET r == makeSpaceInCache(S, Length(data))
         IN IF r.err # NoError THEN r
            ELSE Returned(trackFolder(
                   [r.S EXCEPT !.files = Put(@, id, data),
                               !.size = @ + Length(data),
                               !.lru = Append(@, id)], id))
    ELSE Thrown(S, "ReferenceError")

\* --------------------------------------------------------- the operations
EmptyMap == [k \in {} |-> 0]
NoId == <<>>
Unread == [type |-> "unread", bytes |-> <<>>]

\* What `last` records of a step: the operation, the id it was about, how
\* it ended for its caller ("ok" or the error), the content handed over,
\* the ids the step dropped from g_cachedFiles (`files` is the content
\* map the step leaves), and the read functions of fs the step called.
FsStep(op, arg, result, data, files, fs) ==
    [op |-> op, arg |-> arg, result |-> result, data |-> data,
     evicted |-> DOMAIN g_cachedFiles \ DOMAIN files, fs |-> fs]

\* A step that calls no read function of fs.
Step(op, arg, result, data, files) == FsStep(op, arg, result, data, files, {})

\* The closure variables take the values of S.
Commit(S) ==
    /\ g_cacheSize' = S.size
    /\ g_cacheSizeLimit' = S.limit
    /\ g_fileLRUList' = S.lru
    /\ g_cachedFiles' = S.files
    /\ g_trackedFolders' = S.folders
    /\ g_numTrackedFolders' = S.num
    /\ watchers' = Forget(S).watchers
    /\ Len(S.lru) <= workload.lru

\* The recency order once the step has used id `used` (NoId: none) and left
\* `files` cached.
Recency(files, used) ==
    SelectSeq(mru, LAMBDA i : i \in DOMAIN files /\ i # used)
      \o (IF used \in DOMAIN files THEN <<used>> ELSE <<>>)

\* How a throw or an endless loop ends the step. A throw inside a callback
\* of the event loop is caught by nobody: the process exits unless an
\* uncaughtException handler keeps it alive.
Outcome(err, inCallback) ==
    IF err = "hang" THEN status' = "hung"
    ELSE IF err # NoError /\ inCallback THEN status' \in {"running", "exited"}
    ELSE status' = "running"

\* new Cache(options)
Init ==
    /\ workload \in Workloads
    /\ g_cacheSize = 0
    /\ \E limit \in ConstructorLimits :
         \* options.cacheSizeLimit || 64 * 1024 * 1024 : undefined and 0 are falsy
         g_cacheSizeLimit = IF limit = <<>> \/ limit = <<0>>
                            THEN DefaultCacheSizeLimit ELSE limit[1]
    /\ g_fileLRUList = <<>>
    /\ g_cachedFiles = EmptyMap
    /\ g_trackedFolders = EmptyMap
    /\ g_numTrackedFolders = 0
    /\ g_checkForFileChanges \in workload.watching
    /\ watchers = EmptyMap
    /\ disk = InitialDisk
    /\ inflight = EmptyBag
    /\ timers = <<>>
    /\ status = "running"
    /\ last = [op |-> "new", arg |-> NoId, result |-> "ok", data |-> UndefinedContent,
               evicted |-> {}, fs |-> {}]
    /\ changed = [f \in Files |-> "same"]
    /\ mru = <<>>

\* readFileSync(filename, options). fs.readFileSync can fail, and its error
\* reaches the caller.
readFileSync(filename, options) ==
    LET id == makeId(filename, options)
        g == getContentFromCache(State, id)
    IN /\ status = "running"
       /\ <<filename, options>> \in workload.requests
       /\ UNCHANGED <<g_checkForFileChanges, disk, inflight, timers, changed, workload>>
       /\ IF ~Falsy(g.content)
          THEN /\ Commit(g.S)
               /\ status' = "running"
               /\ last' = Step("readFileSync", id, "ok", g.content, g.S.files)
               /\ mru' = Recency(g.S.files, id)
          ELSE \/ /\ Commit(g.S)
                  /\ status' = "running"
                  /\ last' = FsStep("readFileSync", id, "EIO", UndefinedContent,
                                    g.S.files, {"readFileSync"})
                  /\ mru' = Recency(g.S.files,
                                    IF g.content # UndefinedContent THEN id ELSE NoId)
               \/ LET content == Data(disk[filename], options)
                      r == cacheContent(g.S, id, content)
                  IN /\ Commit(r.S)
                     /\ Outcome(r.err, FALSE)
                     /\ last' = FsStep("readFileSync", id,
                                     IF r.err = NoError THEN "ok" ELSE r.err,
                                     IF r.err = NoError THEN content ELSE UndefinedContent,
                                     r.S.files, {"readFileSync"})
                     /\ mru' = Recency(r.S.files,
                                       IF r.err = NoError \/ g.content # UndefinedContent
                                       THEN id ELSE NoId)

\* A readFile that calls the callback itself on a hit, before it returns.
readFileCallsBackInFrame(filename, options) ==
    LET id == makeId(filename, options)
        g == getContentFromCache(State, id)
    IN /\ status = "running"
       /\ <<filename, options>> \in workload.requests
       /\ UNCHANGED <<g_checkForFileChanges, disk, changed, workload, timers>>
       /\ BagCardinality(inflight) + Len(timers) < workload.pending
       /\ Commit(g.S)
       /\ status' = "running"
       /\ IF g.content # UndefinedContent
          THEN /\ inflight' = inflight
               /\ last' = Step("readFile", id, "hit", g.content, g.S.files)
               /\ mru' = Recency(g.S.files, id)
          ELSE /\ inflight' = inflight (+) SetToBag({[id |-> id, filename |-> filename,
                                                     options |-> options, data |-> Unread]})
               /\ last' = FsStep("readFile", id, "miss", UndefinedContent, g.S.files,
                                 {"readFile"})
               /\ mru' = mru

\* readFile(filename, options, callback), up to its return: a hit is
\* handed to setTimeout, a miss to fs.readFile.
readFile(filename, options) ==
    LET id == makeId(filename, options)
        g == getContentFromCache(State, id)
    IN /\ status = "running"
       /\ <<filename, options>> \in workload.requests
       /\ UNCHANGED <<g_checkForFileChanges, disk, changed, workload>>
       /\ BagCardinality(inflight) + Len(timers) < workload.pending
       /\ Commit(g.S)
       /\ status' = "running"
       /\ IF g.content # UndefinedContent
          THEN /\ timers' = Append(timers, [id |-> id, data |-> g.content])
               /\ inflight' = inflight
               /\ last' = Step("readFile", id, "hit", UndefinedContent, g.S.files)
               /\ mru' = Recency(g.S.files, id)
          ELSE /\ inflight' = inflight (+) SetToBag({[id |-> id, filename |-> filename,
                                                     options |-> options, data |-> Unread]})
               /\ timers' = timers
               /\ last' = FsStep("readFile", id, "miss", UndefinedContent, g.S.files,
                                    {"readFile"})
               /\ mru' = mru

\* The file system carries out one outstanding fs.readFile: it reads the
\* bytes the file holds now.
fsRead(t) ==
    /\ status = "running"
    /\ t \in BagToSet(inflight)
    /\ t.data = Unread
    /\ inflight' = (inflight (-) SetToBag({t}))
                     (+) SetToBag({[t EXCEPT !.data = Data(disk[t.filename], t.options)]})
    /\ last' = Step("fs", NoId, "ok", UndefinedContent, g_cachedFiles)
    /\ UNCHANGED <<g_cacheSize, g_cacheSizeLimit, g_fileLRUList, g_cachedFiles,
                   g_trackedFolders, g_numTrackedFolders, g_checkForFileChanges,
                   watchers, disk, timers, status, changed, mru, workload>>

\* The function readFile passes to fs.readFile, called with (err, data):
\* with an error when the read failed (at any point, read or not), with the
\* bytes read otherwise.
readFileCallback(t) ==
    /\ status = "running"
    /\ t \in BagToSet(inflight)
    /\ inflight' = inflight (-) SetToBag({t})
    /\ UNCHANGED <<g_checkForFileChanges, disk, timers, changed, workload>>
    /\ \/ /\ Commit(State)
          /\ status' = "running"
          /\ last' = Step("callback", t.id, "EIO", UndefinedContent, g_cachedFiles)
          /\ mru' = mru
       \/ /\ t.data # Unread
          /\ LET r == cacheContent(State, t.id, t.data)
             IN /\ Commit(r.S)
                /\ Outcome(r.err, TRUE)
                /\ last' = IF r.err = NoError
                           THEN Step("callback", t.id, "ok", t.data, r.S.files)
                           ELSE Step("fs.readFile callback", t.id, r.err, UndefinedContent,
                                     r.S.files)
                /\ mru' = Recency(r.S.files, IF r.err = NoError THEN t.id ELSE NoId)

\* The function readFile passes to setTimeout on a hit.
timerCallback ==
    /\ status = "running"
    /\ timers # <<>>
    /\ timers' = Tail(timers)
    /\ last' = Step("timeout", Head(timers).id, "ok", Head(timers).data,
                   g_cachedFiles)
    /\ UNCHANGED <<g_cacheSize, g_cacheSizeLimit, g_fileLRUList, g_cachedFiles,
                   g_trackedFolders, g_numTrackedFolders, g_checkForFileChanges,
                   watchers, disk, inflight, status, changed, mru, workload>>

\* The files a notification (dirname, name) is about.
Notified(dirname, name) ==
    {f \in Files : IF name = NoName THEN Dirname(f) = dirname
                   ELSE f = Join(dirname, name)}

\* The function trackFolder passes to fs.watch, called with (event,
\* filename) for the directory of open handle h.
watchCallback(h, name) ==
    LET dirname == watchers[h].dir
        r == IF name # NoName
             THEN removeByFilename(State, Join(dirname, name))
             ELSE removeByFolder(State, dirname)
    IN /\ status = "running"
       /\ watchers[h].closes = 0
       /\ Commit(r.S)
       /\ Outcome(r.err, TRUE)
       /\ last' = Step("watch", NoId,
                       IF r.err = NoError THEN "ok" ELSE r.err, UndefinedContent,
                       r.S.files)
       /\ mru' = Recency(r.S.files, NoId)
       /\ changed' = [f \in Files |->
                        IF f \in Notified(dirname, name) /\ changed[f] = "changed"
                        THEN "notified" ELSE changed[f]]
       /\ UNCHANGED <<g_checkForFileChanges, disk, inflight, timers, workload>>

\* setCacheSizeLimit(numBytes)
setCacheSizeLimit(numBytes) ==
    LET r == makeSpaceInCache([State EXCEPT !.limit = Max(0, numBytes)], 0)
    IN /\ status = "running"
       /\ Commit(r.S)
       /\ Outcome(r.err, FALSE)
       /\ last' = Step("setCacheSizeLimit", NoId,
                       IF r.err = NoError THEN "ok" ELSE r.err, UndefinedContent,
                       r.S.files)
       /\ mru' = Recency(r.S.files, NoId)
       /\ UNCHANGED <<g_checkForFileChanges, disk, inflight, timers, changed, workload>>

\* Every tracked folder's watcher closed, in turn.
RECURSIVE closeAll(_, _)
closeAll(ws, handles) ==
    IF handles = <<>> THEN ws
    ELSE closeAll(Close(ws, Head(handles)), Tail(handles))

\* A clear() that closes the watchers but keeps g_trackedFolders.
clearAllButFolders(S) ==
    [size |-> 0, limit |-> S.limit, lru |-> <<>>, files |-> EmptyMap,
     folders |-> S.folders, num |-> 0,
     watchers |-> closeAll(S.watchers,
                     SetToSeq({S.folders[d].watcher : d \in DOMAIN S.folders}))]

\* A clear() that forgets to close the watchers it drops.
clearAllButWatchers(S) ==
    [size |-> 0, limit |-> S.limit, lru |-> <<>>, files |-> EmptyMap,
     folders |-> EmptyMap, num |-> 0, watchers |-> S.watchers]

\* The body of clear(): every tracked folder's watcher closed, then every
\* closure variable but the limit reset.
clearAll(S) ==
    [size |-> 0, limit |-> S.limit, lru |-> <<>>, files |-> EmptyMap,
     folders |-> EmptyMap, num |-> 0,
     watchers |-> closeAll(S.watchers,
                     SetToSeq({S.folders[d].watcher : d \in DOMAIN S.folders}))]

\* clear()
clear ==
    /\ status = "running"
    /\ Commit(clearAll(State))
    /\ status' = "running"
    /\ last' = Step("clear", NoId, "ok", UndefinedContent, EmptyMap)
    /\ mru' = <<>>
    /\ UNCHANGED <<g_checkForFileChanges, disk, inflight, timers, changed, workload>>

\* Somebody else writes other bytes to a file.
diskWrite(f, bytes) ==
    /\ status = "running"
    /\ workload.writes
    /\ f \in {r[1] : r \in workload.requests}
    /\ bytes # disk[f]
    /\ disk' = [disk EXCEPT ![f] = bytes]
    /\ changed' = [changed EXCEPT ![f] = "changed"]
    /\ last' = Step("fs", NoId, "ok", UndefinedContent, g_cachedFiles)
    /\ UNCHANGED <<g_cacheSize, g_cacheSizeLimit, g_fileLRUList, g_cachedFiles,
                   g_trackedFolders, g_numTrackedFolders, g_checkForFileChanges,
                   watchers, inflight, timers, status, mru, workload>>

Next ==
    \/ \E r \in Requests : readFileSync(r[1], r[2])
    \/ \E r \in Requests : readFile(r[1], r[2])
    \/ \E t \in BagToSet(inflight) : fsRead(t)
    \/ \E t \in BagToSet(inflight) : readFileCallback(t)
    \/ timerCallback
    \/ \E h \in DOMAIN watchers, name \in EventNames : watchCallback(h, name)
    \/ \E n \in LimitArguments : setCacheSizeLimit(n)
    \/ clear
    \/ \E f \in Files : \E bytes \in Versions(f) : diskWrite(f, bytes)

Spec == Init /\ [][Next]_vars

\* --------------------------------------------------------------- getInfo
\* getInfo(): what the tests read the counters through
getInfo == [cacheSize |-> g_cacheSize, numTrackedFolders |-> g_numTrackedFolders]

\* ------------------------------------------------------------ the claims
RECURSIVE SumOfLengths(_, _)
SumOfLengths(files, ids) ==
    IF ids = {} THEN 0
    ELSE LET id == CHOOSE id \in ids : TRUE
         IN Length(files[id]) + SumOfLengths(files, ids \ {id})

IdA == makeId(FileA, Undefined)
IdAutf == makeId(FileA, "utf-8")
IdB == makeId(FileB, "utf-8")
IdC == makeId(FileC, Undefined)

\* C1: cacheSize is the sum of the lengths of the contents in the content
\* map, each cached id counted once.
C1_CacheSizeIsSumOfLengths ==
    getInfo.cacheSize = SumOfLengths(g_cachedFiles, DOMAIN g_cachedFiles)

\* C2: once an operation has completed, normally or by raising, cacheSize
\* is at most the byte ceiling.
C2_CacheSizeWithinCeiling ==
    status # "hung" => g_cacheSize <= g_cacheSizeLimit

\* C3: a read issued once the change of a file has been notified returns
\* the bytes the file holds: a readFileSync returns them, and a readFile
\* that hits schedules them for delivery.
C3_ReadAfterNotificationIsFresh ==
    /\ (/\ last.op = "readFileSync"
        /\ last.result = "ok"
        /\ changed[getFilenameFromId(last.arg)] = "notified")
          => last.data.bytes = disk[getFilenameFromId(last.arg)]
    /\ (/\ last.op = "readFile"
        /\ last.result = "hit"
        /\ changed[getFilenameFromId(last.arg)] = "notified")
          => timers[Len(timers)].data.bytes = disk[getFilenameFromId(last.arg)]

\* What a notification naming file `filename` must leave: the entries of
\* that path gone, every other entry as it was, cacheSize lower by the
\* lengths of the entries gone, and no error.
NamedFileInvalidated(filename) ==
    LET gone == {id \in DOMAIN g_cachedFiles : getFilenameFromId(id) = filename}
    IN /\ DOMAIN g_cachedFiles' = DOMAIN g_cachedFiles \ gone
       /\ \A id \in DOMAIN g_cachedFiles \ gone : g_cachedFiles'[id] = g_cachedFiles[id]
       /\ g_cacheSize' = g_cacheSize - SumOfLengths(g_cachedFiles, gone)
       /\ last'.result = "ok"
       /\ last'.evicted = gone

\* C4: a watch notification naming file F of directory D removes every
\* entry whose path is F and no other entry, and cacheSize drops by the
\* total length of the entries removed.
C4_NamedNotificationEvictsThatFile ==
    [][\A h \in DOMAIN watchers : \A name \in EventNames \ {NoName} :
         watchCallback(h, name) => NamedFileInvalidated(Join(watchers[h].dir, name))]_vars

\* C4 witness: a notification has just removed both entries of test.file,
\* and the entries of test.file2 and subfolder/test.txt are still cached.
C4_Witness ==
    /\ last.op = "watch"
    /\ last.evicted = {IdA, IdAutf}
    /\ {IdB, IdC} \subseteq DOMAIN g_cachedFiles

\* What a notification without a filename for directory `dirname` must
\* leave: the entries of that directory gone, every other entry as it was,
\* the directory no longer tracked and its handle closed once.
FolderInvalidated(dirname, h) ==
    LET gone == {id \in DOMAIN g_cachedFiles : Dirname(getFilenameFromId(id)) = dirname}
    IN /\ DOMAIN g_cachedFiles' = DOMAIN g_cachedFiles \ gone
       /\ \A id \in DOMAIN g_cachedFiles \ gone : g_cachedFiles'[id] = g_cachedFiles[id]
       /\ dirname \notin DOMAIN g_trackedFolders'
       /\ h \notin DOMAIN watchers'
       /\ last'.result = "ok"

\* C5: a watch notification with no filename for directory D removes every
\* cached entry of D and leaves the others; D's handle is then closed
\* exactly once and D is no longer tracked.
C5_UnnamedNotificationEvictsFolder ==
    [][\A h \in DOMAIN watchers :
         watchCallback(h, NoName) => FolderInvalidated(watchers[h].dir, h)]_vars

\* The cache is as the step found it.
CacheUnchanged ==
    UNCHANGED <<g_cacheSize, g_cacheSizeLimit, g_fileLRUList, g_cachedFiles,
                g_trackedFolders, g_numTrackedFolders, watchers>>

\* The outstanding fs.readFile requests the step called back.
CalledBack ==
    {t \in BagToSet(inflight) :
        t.data # Unread /\ CopiesIn(t, inflight') < CopiesIn(t, inflight)}

\* C6: a read that misses, of a file longer than the byte ceiling and read
\* without a failure, hands the file's content over without an error and
\* changes nothing in the cache: readFileSync returns the content, and the
\* completion of a readFile delivers it to the callback.
C6_OversizedReadSucceeds ==
    [][/\ (/\ last'.op = "readFileSync"
           /\ last'.result # "EIO"
           /\ last'.arg \notin DOMAIN g_cachedFiles
           /\ Len(disk[getFilenameFromId(last'.arg)]) > g_cacheSizeLimit)
          => (/\ last'.result = "ok"
              /\ last'.data.bytes = disk[getFilenameFromId(last'.arg)]
              /\ CacheUnchanged)
       /\ \A t \in CalledBack :
            (/\ last'.result # "EIO"
             /\ t.id \notin DOMAIN g_cachedFiles
             /\ Length(t.data) > g_cacheSizeLimit)
            => (/\ last'.op = "callback"
                /\ last'.result = "ok"
                /\ last'.data = t.data
                /\ CacheUnchanged)]_vars

\* C7: clear() leaves cacheSize 0, no cached entry, an empty LRU list and
\* no tracked folder, and every handle fs.watch ever returned has then been
\* closed exactly once (none is left to remember).
C7_ClearEmptiesEverything ==
    last.op = "clear" =>
        /\ getInfo.cacheSize = 0
        /\ getInfo.numTrackedFolders = 0
        /\ DOMAIN g_cachedFiles = {}
        /\ g_fileLRUList = <<>>
        /\ DOMAIN g_trackedFolders = {}
        /\ DOMAIN watchers = {}

\* C7 witness: clear() has just dropped entries of two directories of a
\* cache that watches them.
C7_Witness ==
    /\ last.op = "clear"
    /\ g_checkForFileChanges
    /\ {IdA, IdC} \subseteq last.evicted

\* The directories with at least one cached entry.
CachedFolders == {Dirname(getFilenameFromId(id)) : id \in DOMAIN g_cachedFiles}

\* C8: with change-watching enabled numTrackedFolders is the number of
\* directories holding a cached entry; with it disabled numTrackedFolders
\* is 0 and fs.watch has returned no handle.
C8_TrackedFoldersAreCachedFolders ==
    IF g_checkForFileChanges
    THEN getInfo.numTrackedFolders = Cardinality(CachedFolders)
    ELSE getInfo.numTrackedFolders = 0 /\ DOMAIN watchers = {}

\* C8 witness: a notification has just emptied one of two tracked
\* directories and the other is still tracked.
C8_Witness ==
    /\ g_checkForFileChanges
    /\ last.op = "watch"
    /\ last.evicted # {}
    /\ getInfo.numTrackedFolders = 1
    /\ Cardinality(CachedFolders) = 1

\* The shortest prefix of `order` whose removal brings `size` down to
\* `target`.
RECURSIVE ShortestPrefix(_, _, _)
ShortestPrefix(order, size, target) ==
    IF size <= target \/ order = <<>> THEN {}
    ELSE {Head(order)}
           \cup ShortestPrefix(Tail(order),
                               size - Length(g_cachedFiles[Head(order)]), target)

\* C9: an insertion that needs room evicts exactly the shortest prefix of
\* the recency order (least recently used first) that makes the new content
\* fit.
C9_InsertionEvictsLeastRecentlyUsed ==
    [][(/\ last'.op \in {"readFileSync", "callback"}
        /\ last'.result = "ok"
        /\ last'.arg \notin DOMAIN g_cachedFiles
        /\ last'.arg \in DOMAIN g_cachedFiles')
       => last'.evicted =
            ShortestPrefix(mru, g_cacheSize,
                           g_cacheSizeLimit - Length(g_cachedFiles'[last'.arg]))]_vars

\* C10: setCacheSizeLimit(n) with n below cacheSize returns normally, leaves
\* cacheSize at most the new limit, and has evicted the least recently used
\* entries, oldest first, and no more of them than that takes.
C10_LoweringTheLimitEvicts ==
    [][\A n \in LimitArguments :
         (setCacheSizeLimit(n) /\ n < g_cacheSize)
         => (/\ last'.result = "ok"
             /\ g_cacheSize' <= Max(0, n)
             /\ last'.evicted = ShortestPrefix(mru, g_cacheSize, Max(0, n)))]_vars

\* The step before completed a read of `id` and the content it handed over
\* is the content cached for `id`.
JustRead(id) ==
    /\ last.op \in {"readFileSync", "callback", "timeout"}
    /\ last.result = "ok"
    /\ last.arg = id
    /\ id \in DOMAIN g_cachedFiles
    /\ g_cachedFiles[id] = last.data

\* C11: a read of an id directly after a read of the same id, nothing in
\* between, hands over the same bytes as the first and changes neither
\* cacheSize nor numTrackedFolders.
C11_SecondReadIsIdempotent ==
    [][\A id \in Ids :
         (JustRead(id) /\ last'.arg = id /\ last'.op \in {"readFileSync", "readFile"})
         => (/\ g_cacheSize' = g_cacheSize
             /\ g_numTrackedFolders' = g_numTrackedFolders
             /\ IF last'.op = "readFileSync"
                THEN last'.result = "ok" /\ last'.data = last.data
                ELSE last'.result = "hit"
                     /\ timers'[Len(timers')].data = last.data)]_vars

\* C12: a readFile or readFileSync of an id that is a key of the content
\* map, whatever its content, calls neither fs.readFile nor fs.readFileSync
\* nor fs.watch.
C12_HitNeverCallsTheFileSystem ==
    [][(last'.op \in {"readFileSync", "readFile"} /\ last'.arg \in DOMAIN g_cachedFiles)
       => (last'.fs = {} /\ DOMAIN watchers' \subseteq DOMAIN watchers)]_vars

\* C13: a read that fails in the file system reports the failure with no
\* content (readFileSync raises it, the fs.readFile callback passes it to
\* the caller's callback) and leaves the content map, the LRU list,
\* cacheSize and the folder trackers as they were.
C13_FailedReadChangesNothing ==
    [][(last'.op \in {"readFileSync", "callback"} /\ last'.result = "EIO")
       => (last'.data = UndefinedContent /\ CacheUnchanged)]_vars

\* C14: no operation and no callback ends with an error other than a
\* failure of the file system's read.
C14_OnlyReadFailuresAreRaised ==
    last.result \notin {"TypeError", "ReferenceError"}

\* How many times id is in list.
Occurrences(list, id) == Cardinality({i \in 1..Len(list) : list[i] = id})

\* C15: when the fs.readFile of one readFile has just completed and cached
\* its content, and the fs.readFile of a second readFile of the same id,
\* outstanding all along, completes next, the content map holds the content
\* delivered last for that id, the id is once in the LRU list, and
\* cacheSize counts that content once.
C15_RedundantReadsCountOnce ==
    [][\A t \in CalledBack :
         (/\ last.op = "callback" /\ last.result = "ok" /\ last.arg = t.id
          /\ t.id \in DOMAIN g_cachedFiles
          /\ last'.op = "callback" /\ last'.result = "ok")
         => (/\ g_cachedFiles'[t.id] = t.data
             /\ Occurrences(g_fileLRUList', t.id) = 1
             /\ g_cacheSize' = g_cacheSize + Length(t.data)
                                 - SumOfLengths(g_cachedFiles, last'.evicted \cup {t.id}))]_vars

\* C16: a readFile that hits hands nothing to its caller before it returns:
\* the content goes to setTimeout, behind the deliveries already waiting,
\* and reaches the callback in a later turn of the event loop, which takes
\* it from there.
C16_HitIsDeliveredLater ==
    [][/\ (last'.op = "readFile" /\ last'.arg \in DOMAIN g_cachedFiles)
          => (/\ last'.result = "hit"
              /\ last'.data = UndefinedContent
              /\ timers' = Append(timers, [id |-> last'.arg,
                                           data |-> g_cachedFiles[last'.arg]]))
       /\ last'.op = "timeout"
          => (/\ timers # <<>>
              /\ last'.arg = Head(timers).id
              /\ last'.data = Head(timers).data)]_vars

\* C16 witness: readFile has just returned from a hit and the content waits
\* for its turn.
C16_Witness ==
    /\ last.op = "readFile"
    /\ last.result = "hit"
    /\ timers # <<>>
    /\ timers[Len(timers)].id = last.arg
    /\ timers[Len(timers)].data.bytes # <<>>

\* The directories of the files read.
Folders == {Dirname(f) : f \in Files}

\* The handles fs.watch returned for dirname that are not closed.
OpenHandles(dirname) ==
    {h \in DOMAIN watchers : watchers[h].dir = dirname /\ watchers[h].closes = 0}

\* C17: no watch handle is closed more than once; a directory has at most
\* one handle that is open, it has one exactly when it has a tracker, and
\* that handle is the tracker's watcher.
C17_OneOpenHandlePerTrackedFolder ==
    /\ \A h \in DOMAIN watchers : watchers[h].closes <= 1
    /\ \A dirname \in Folders :
         /\ Cardinality(OpenHandles(dirname)) <= 1
         /\ OpenHandles(dirname) # {} <=> dirname \in DOMAIN g_trackedFolders
         /\ dirname \in DOMAIN g_trackedFolders
              => OpenHandles(dirname) = {g_trackedFolders[dirname].watcher}

\* C17 witness: an insertion has just evicted the only cached file of
\* subfolder, whose handle was closed with its tracker, while "." keeps its
\* tracker and its open handle.
C17_Witness ==
    /\ last.op = "readFileSync"
    /\ last.evicted = {IdC}
    /\ Dirname(FileC) \notin DOMAIN g_trackedFolders
    /\ OpenHandles(Dirname(FileC)) = {}
    /\ OpenHandles(Dirname(FileA)) # {}

\* C18: the LRU list and the content map hold the same ids: every key of
\* the content map is once in the list, and every id of the list is a key
\* of the content map.
C18_LRUListMatchesContentMap ==
    /\ \A id \in DOMAIN g_cachedFiles : Occurrences(g_fileLRUList, id) = 1
    /\ \A i \in 1..Len(g_fileLRUList) : g_fileLRUList[i] \in DOMAIN g_cachedFiles

\* C19: with change-watching enabled, every cached id is in the fileIds of
\* the tracker of its directory, and every id in the fileIds of a tracker is
\* cached.
C19_TrackersListTheCachedIds ==
    g_checkForFileChanges =>
        /\ \A id \in DOMAIN g_cachedFiles :
             /\ Dirname(getFilenameFromId(id)) \in DOMAIN g_trackedFolders
             /\ id \in g_trackedFolders[Dirname(getFilenameFromId(id))].fileIds
        /\ \A dirname \in DOMAIN g_trackedFolders :
             g_trackedFolders[dirname].fileIds \subseteq DOMAIN g_cachedFiles

\* C19 witness: a notification has just removed both entries of test.file
\* and the tracker of "." lists the one id still cached there.
C19_Witness ==
    /\ g_checkForFileChanges
    /\ last.op = "watch"
    /\ last.evicted = {IdA, IdAutf}
    /\ Dirname(FileA) \in DOMAIN g_trackedFolders
    /\ g_trackedFolders[Dirname(FileA)].fileIds = {IdB}

\* C20: every tracker's numFiles is the number of ids in its fileIds and is
\* at least 1, and g_numTrackedFolders is the number of trackers.
C20_TrackerCountsAreExact ==
    /\ \A dirname \in DOMAIN g_trackedFolders :
         /\ g_trackedFolders[dirname].numFiles
              = Cardinality(g_trackedFolders[dirname].fileIds)
         /\ g_trackedFolders[dirname].numFiles >= 1
    /\ g_numTrackedFolders = Cardinality(DOMAIN g_trackedFolders)

\* C20 witness: an insertion into subfolder has just evicted one of the
\* three ids of ".", whose tracker counts the two that are left.
C20_Witness ==
    /\ last.op = "readFileSync"
    /\ last.arg = IdC
    /\ last.evicted = {IdA}
    /\ g_numTrackedFolders = 2
    /\ Dirname(FileA) \in DOMAIN g_trackedFolders
    /\ g_trackedFolders[Dirname(FileA)].numFiles = 2

\* list without the entries equal to id
Without(list, id) == SelectSeq(list, LAMBDA i : i # id)

\* Everything of the cache but the LRU list is as the step found it.
OnlyTheOrderChanged ==
    UNCHANGED <<g_cacheSize, g_cacheSizeLimit, g_cachedFiles, g_trackedFolders,
                g_numTrackedFolders, watchers>>

\* C21: a lookup that hits (a readFile of a cached id, a readFileSync
\* served from the cache) leaves the id at the most recently used end of
\* the LRU list, the list as long as it was and the other ids in the order
\* they had, and changes nothing else of the cache; a lookup that misses (a
\* readFile of an id that is not cached) changes nothing of the cache.
C21_LookupOnlyReordersTheList ==
    [][/\ (/\ \/ last'.op = "readFile"
              \/ last'.op = "readFileSync" /\ last'.fs = {}
           /\ last'.arg \in DOMAIN g_cachedFiles)
          => (/\ g_fileLRUList'[Len(g_fileLRUList')] = last'.arg
              /\ Len(g_fileLRUList') = Len(g_fileLRUList)
              /\ Without(g_fileLRUList', last'.arg) = Without(g_fileLRUList, last'.arg)
              /\ OnlyTheOrderChanged)
       /\ (last'.op = "readFile" /\ last'.arg \notin DOMAIN g_cachedFiles)
          => CacheUnchanged]_vars

\* C21 witness: a readFile has just hit the id that was cached first of
\* two, which is now behind the other in the LRU list.
C21_Witness ==
    /\ last.op = "readFile"
    /\ last.result = "hit"
    /\ last.arg = IdAutf
    /\ mru = <<IdC, IdAutf>>
    /\ g_fileLRUList = <<IdC, IdAutf>>
    /\ DOMAIN g_trackedFolders = {Dirname(FileA), Dirname(FileC)}
    /\ g_trackedFolders[Dirname(FileA)].watcher < g_trackedFolders[Dirname(FileC)].watcher

\* C22: removeById of an id that is not a key of the content map (the ids
\* makeSpaceInCache can hand it are those of the LRU list) raises nothing and
\* changes nothing.
C22_EvictingAnAbsentIdIsANoOp ==
    \A i \in 1..Len(g_fileLRUList) :
        g_fileLRUList[i] \notin DOMAIN g_cachedFiles
        => removeById(State, <<g_fileLRUList[i]>>) = Returned(State)

\* C23: setCacheSizeLimit(n) with n at or above the current limit evicts
\* nothing and raises nothing: the content map, the LRU list, cacheSize,
\* the trackers and the watch handles are as they were.
C23_RaisingTheLimitEvictsNothing ==
    [][\A n \in LimitArguments :
         (setCacheSizeLimit(n) /\ n >= g_cacheSizeLimit)
         => (/\ last'.result = "ok"
             /\ last'.evicted = {}
             /\ UNCHANGED <<g_cacheSize, g_fileLRUList, g_cachedFiles,
                            g_trackedFolders, g_numTrackedFolders, watchers>>)]_vars

\* The cache right after the completion of the read t, begun before a
\* clear(), has inserted into the emptied cache: the one entry, counted
\* once, and with change-watching its directory tracked through a handle
\* fs.watch has just returned.
InsertedAfterClear(t) ==
    LET dirname == Dirname(getFilenameFromId(t.id))
    IN /\ g_cachedFiles' = Put(EmptyMap, t.id, t.data)
       /\ g_fileLRUList' = <<t.id>>
       /\ g_cacheSize' = Length(t.data)
       /\ IF g_checkForFileChanges
          THEN /\ g_numTrackedFolders' = 1
               /\ DOMAIN g_trackedFolders' = {dirname}
               /\ g_trackedFolders'[dirname].fileIds = {t.id}
               /\ g_trackedFolders'[dirname].numFiles = 1
               /\ g_trackedFolders'[dirname].watcher \in DOMAIN watchers' \ DOMAIN watchers
               /\ watchers'[g_trackedFolders'[dirname].watcher]
                    = [dir |-> dirname, closes |-> 0]
          ELSE /\ g_numTrackedFolders' = 0
               /\ g_trackedFolders' = EmptyMap
               /\ watchers' = watchers

\* C24: a read that was outstanding when clear() ran and completes right
\* after it, without a failure and with content that fits the limit, still
\* hands its content to the callback, inserts it into the emptied cache and
\* has its directory watched anew.
C24_ClearDoesNotCancelReads ==
    [][\A t \in CalledBack :
         (/\ last.op = "clear"
          /\ last'.result # "EIO"
          /\ Length(t.data) <= g_cacheSizeLimit)
         => (/\ last'.op = "callback"
             /\ last'.result = "ok"
             /\ last'.data = t.data
             /\ InsertedAfterClear(t))]_vars

\* C24 witness: clear() has just emptied a watching cache that held the
\* file of a read still outstanding, whose bytes fs has read and which fit
\* the limit.
C24_Witness ==
    /\ last.op = "clear"
    /\ g_checkForFileChanges
    /\ \E t \in BagToSet(inflight) :
         /\ t.data # Unread
         /\ t.data.bytes # <<>>
         /\ Length(t.data) <= g_cacheSizeLimit
         /\ \E id \in last.evicted : getFilenameFromId(id) = t.filename

\* The readFile calls whose callback has not been called: the reads handed
\* to fs.readFile and the hits handed to setTimeout.
Outstanding == BagCardinality(inflight) + Len(timers)

\* C25: no readFile call is given up without its callback being called,
\* and a callback answers one call: a step that ends an outstanding
\* readFile call ends exactly one, and does so by handing the content or
\* the read failure to the caller's callback.
C25_EveryReadFileCallsBack ==
    [][Outstanding' < Outstanding
       => (/\ Outstanding' = Outstanding - 1
           /\ last'.op \in {"callback", "timeout"}
           /\ last'.result \in {"ok", "EIO"})]_vars

\* C26: the eviction loop always ends: no operation runs it forever, and
\* in no state is the LRU list empty while cacheSize is above 0, the
\* lowest target the loop is given (a size the loop could then never
\* bring down).
C26_EvictionLoopTerminates ==
    /\ status # "hung"
    /\ g_fileLRUList = <<>> => g_cacheSize = 0
====
